---- MODULE Spec2Model ----
(***************************************************************************)
(* Model of eogBackend/apis/discrepancyDectector.py: the Flask handler     *)
(* detect_daily_discrepancy and the evaluator check_discrepancy.           *)
(*                                                                         *)
(* JSON values are tagged records: Null, Str(s), Num(q), List(seq) and     *)
(* Obj(members).  A Python float is an exact rational [num, den] with a    *)
(* positive denominator, so 0.05 and 1e-6 are represented without          *)
(* rounding.  A JSON object at the top level of the upstream body keeps    *)
(* the order of its members (a sequence of key/value pairs); a ticket      *)
(* record and the request body are functions from the keys present to      *)
(* their values, so a missing key is a key outside the DOMAIN.             *)
(***************************************************************************)
EXTENDS Integers, Sequences, FiniteSets, TLC

VARIABLES
    pc,         \* where each request is: "idle", "fetching", "fetched", "done"
    request,    \* data, what request.get_json(silent=True) gave (line 125)
    args,       \* the arguments check_discrepancy was called with (line 144)
    upstream,   \* what the GET of line 24 came back with
    fetches,    \* the GETs sent for the request (line 24)
    response    \* the status and body returned to the client

vars == <<pc, request, args, upstream, fetches, response>>

----------------------------------------------------------------------------
(* Bounds of the model. *)

NumRequests == 2
MaxTickets == 2

----------------------------------------------------------------------------
(* Floats as exact rationals. *)

Rat(n, d) == [num |-> n, den |-> d]
RatEq(a, b) == a.num * b.den = b.num * a.den
RatLe(a, b) == a.num * b.den <= b.num * a.den
RatLt(a, b) == a.num * b.den < b.num * a.den
RatAdd(a, b) == Rat(a.num * b.den + b.num * a.den, a.den * b.den)
RatSub(a, b) == Rat(a.num * b.den - b.num * a.den, a.den * b.den)
RatAbs(a) == Rat(IF a.num < 0 THEN -a.num ELSE a.num, a.den)
RatMax(a, b) == IF RatLt(a, b) THEN b ELSE a
\* a / b for b > 0
RatDiv(a, b) == Rat(a.num * b.den, a.den * b.num)

Zero == Rat(0, 1)
One == Rat(1, 1)

\* the floor 1e-6 of line 85
EpsDen == 1000000
Epsilon == Rat(1, EpsDen)

\* the defaults 0.05 and 5.0 of lines 16, 140 and 141
DefaultToleranceDen == 20
DefaultTolerance == Rat(1, DefaultToleranceDen)
DefaultThresholdNum == 5
DefaultThreshold == Rat(DefaultThresholdNum, 1)

----------------------------------------------------------------------------
(* JSON values and the Python operations the code applies to them. *)

Null == [t |-> "null"]
Str(s) == [t |-> "str", v |-> s]
Num(q) == [t |-> "num", v |-> q]
List(items) == [t |-> "list", v |-> items]
Obj(members) == [t |-> "obj", v |-> members]
Member(k, x) == [key |-> k, val |-> x]

\* dict.get(k, default) on a mapping given as a function
Get(m, k, default) == IF k \in DOMAIN m THEN m[k] ELSE default

\* Python truthiness
Truthy(x) ==
    CASE x.t = "null" -> FALSE
      [] x.t = "str" -> x.v # ""
      [] x.t = "num" -> x.v.num # 0
      [] x.t = "list" -> Len(x.v) > 0
      [] x.t = "map" -> DOMAIN x.v # {}
      [] OTHER -> TRUE

\* the strings float() accepts, with their value
NumericStrings == ("4" :> Rat(4, 1))

\* float(x) raises TypeError on None and ValueError on a non-numeric string
CanFloat(x) ==
    \/ x.t = "num"
    \/ x.t = "str" /\ x.v \in DOMAIN NumericStrings

Float(x) == IF x.t = "num" THEN x.v ELSE NumericStrings[x.v]

\* pd.to_datetime(s).date(): the calendar date of a date-like string, the
\* time of day dropped; any other string raises
CalendarDate ==
    ("2025-11-01" :> "2025-11-01") @@
    ("2025-11-01T10:30:00" :> "2025-11-01") @@
    ("2025-11-02" :> "2025-11-02")

Parseable(x) == x.t = "str" /\ x.v \in DOMAIN CalendarDate
ToDate(x) == CalendarDate[x.v]

----------------------------------------------------------------------------
(* check_discrepancy (lines 16-103). *)

Map(f) == [t |-> "map", v |-> f]

\* a returned {"error": ...}: the fixed text of the message and what the
\* message interpolates (the cause, or the columns found)
Error(msg, detail) == [error |-> [msg |-> msg, detail |-> detail]]

\* an exception leaving the function
Raised == [raised |-> "Exception"]

IsError(res) == DOMAIN res = {"error"}
IsRaised(res) == DOMAIN res = {"raised"}

\* `k in data` and data[k] on a JSON object, data.values() in member order
HasKey(members, k) == \E i \in DOMAIN members : members[i].key = k
Lookup(members, k) ==
    members[CHOOSE i \in DOMAIN members : members[i].key = k].val

\* next((v for v in data.values() if isinstance(v, list)), [])
FirstListValue(members) ==
    LET lists == {i \in DOMAIN members : members[i].val.t = "list"}
    IN  IF lists = {} THEN List(<<>>)
        ELSE members[CHOOSE i \in lists : \A j \in lists : i <= j].val

\* ExtractTickets looking for `data` before `tickets`
ExtractTickets_DataFirst(data) ==
    IF data.t = "obj"
    THEN IF HasKey(data.v, "data") THEN Lookup(data.v, "data")
         ELSE IF HasKey(data.v, "tickets") THEN Lookup(data.v, "tickets")
         ELSE FirstListValue(data.v)
    ELSE data

\* lines 29-43: the response shapes accepted
RecognizedShape(data) == data.t \in {"obj", "list"}

ExtractTickets(data) ==
    IF data.t = "obj"
    THEN IF HasKey(data.v, "tickets") THEN Lookup(data.v, "tickets")
         ELSE IF HasKey(data.v, "data") THEN Lookup(data.v, "data")
         ELSE FirstListValue(data.v)
    ELSE data

\* pd.json_normalize: a list of records gives one row per record, a single
\* object one row, a scalar raises
CanNormalize(all_tickets) == all_tickets.t \in {"list", "obj"}

RowOf(members) ==
    [k \in {members[i].key : i \in DOMAIN members} |-> Lookup(members, k)]

JsonNormalize(all_tickets) ==
    IF all_tickets.t = "list" THEN all_tickets.v ELSE <<RowOf(all_tickets.v)>>

\* the columns of the frame: every key some record has; a record without
\* the key holds NaN in that column
Columns(tickets_df) == UNION {DOMAIN tickets_df[i] : i \in DOMAIN tickets_df}

\* DataFrame.empty: no rows or no columns
Empty(tickets_df) == Len(tickets_df) = 0 \/ Columns(tickets_df) = {}

expected_cols == {"cauldron_id", "date", "amount_collected"}

\* line 65: every date held in the column must parse (NaN becomes NaT)
DatesParse(tickets_df) ==
    \A i \in DOMAIN tickets_df :
        "date" \in DOMAIN tickets_df[i] => Parseable(tickets_df[i].date)

\* lines 67-69: NaN and NaT equal nothing
Matches(row, cauldron_id, date_obj) ==
    /\ "cauldron_id" \in DOMAIN row
    /\ row.cauldron_id = cauldron_id
    /\ "date" \in DOMAIN row
    /\ ToDate(row.date) = date_obj

\* Series.sum(): NaN entries are skipped
RECURSIVE SumAmounts(_)
SumAmounts(rows) ==
    IF rows = <<>> THEN Zero
    ELSE LET rest == SumAmounts(Tail(rows))
         IN  IF "amount_collected" \in DOMAIN Head(rows)
             THEN RatAdd(Float(Head(rows).amount_collected), rest)
             ELSE rest

\* MissingTicketResult letting the empty selection fall through to the
\* classification
MissingTicketResult_FallThrough(cauldron_id, date_obj, drain_volume) ==
    [cauldron_id |-> cauldron_id,
     date |-> date_obj,
     drain_volume |-> drain_volume,
     total_ticket_volume |-> Zero,
     status |-> "UNDER_REPORTED",
     difference |-> drain_volume,
     relative_diff |-> One]

\* lines 71-80
MissingTicketResult(cauldron_id, date_obj, drain_volume) ==
    [cauldron_id |-> cauldron_id,
     date |-> date_obj,
     drain_volume |-> drain_volume,
     total_ticket_volume |-> Zero,
     status |-> "MISSING_TICKET",
     difference |-> drain_volume,
     relative_diff |-> One]

\* line 84
Diff(total_ticket_volume, drain_volume) ==
    RatAbs(RatSub(total_ticket_volume, drain_volume))

\* line 85
RelDiff(diff, drain_volume) == RatDiv(diff, RatMax(drain_volume, Epsilon))

\* Classify asking for both conditions
Classify_And(rel_diff, diff, total_ticket_volume, drain_volume, tolerance, threshold) ==
    IF RatLe(rel_diff, tolerance) /\ RatLe(diff, threshold) THEN "OK"
    ELSE IF RatLt(drain_volume, total_ticket_volume) THEN "OVER_REPORTED"
    ELSE "UNDER_REPORTED"

\* lines 87-92
Classify(rel_diff, diff, total_ticket_volume, drain_volume, tolerance, threshold) ==
    IF RatLe(rel_diff, tolerance) \/ RatLe(diff, threshold) THEN "OK"
    ELSE IF RatLt(drain_volume, total_ticket_volume) THEN "OVER_REPORTED"
    ELSE "UNDER_REPORTED"

\* lines 82-103
ComparisonResult(cauldron_id, date_obj, drain_volume, tolerance, threshold, cauldron_tickets) ==
    LET total_ticket_volume == SumAmounts(cauldron_tickets)
        diff == Diff(total_ticket_volume, drain_volume)
        rel_diff == RelDiff(diff, drain_volume)
    IN  [cauldron_id |-> cauldron_id,
         date |-> date_obj,
         drain_volume |-> drain_volume,
         total_ticket_volume |-> total_ticket_volume,
         difference |-> diff,
         relative_diff |-> rel_diff,
         status |-> Classify(rel_diff, diff, total_ticket_volume,
                             drain_volume, tolerance, threshold),
         num_tickets |-> Len(cauldron_tickets)]

\* lines 48-103, from the extracted tickets on
CheckTickets(cauldron_id, date, drain_volume, tolerance, threshold, all_tickets) ==
    IF ~CanNormalize(all_tickets)
    THEN Error("Error parsing tickets JSON", {})
    ELSE LET tickets_df == JsonNormalize(all_tickets) IN
    IF Empty(tickets_df)
    THEN Error("No ticket data found in response.", {})
    ELSE IF ~(expected_cols \subseteq Columns(tickets_df))
    THEN Error("Missing expected columns in ticket data", Columns(tickets_df))
    ELSE IF ~DatesParse(tickets_df) \/ ~Parseable(date)
    THEN Raised
    ELSE LET date_obj == ToDate(date)
             cauldron_tickets ==
                 SelectSeq(tickets_df,
                           LAMBDA row : Matches(row, cauldron_id, date_obj))
         IN  IF cauldron_tickets = <<>>
             THEN MissingTicketResult(cauldron_id, date_obj, drain_volume)
             ELSE ComparisonResult(cauldron_id, date_obj, drain_volume,
                                   tolerance, threshold, cauldron_tickets)

\* lines 22-46, then the rest.  resp is what the GET came back with: a
\* transport error, a non-success status, a body that is not JSON, or a
\* decoded body
CheckDiscrepancy(cauldron_id, date, drain_volume, tolerance, threshold, resp) ==
    IF resp.kind # "ok"
    THEN Error("Failed to fetch tickets API", {resp.kind})
    ELSE IF ~RecognizedShape(resp.json)
    THEN Error("Unexpected API response format.", {})
    ELSE CheckTickets(cauldron_id, date, drain_volume, tolerance, threshold,
                      ExtractTickets(resp.json))

----------------------------------------------------------------------------
(* detect_daily_discrepancy (lines 111-148). *)

HttpResponse(code, body) == [code |-> code, body |-> body]

\* jsonify({"error": msg}), 400
BadRequest(msg) == HttpResponse(400, Error(msg, {}))

\* an exception leaving the view function: Flask answers 500 with its own
\* error page, not with a JSON payload of the application
ServerError == HttpResponse(500, Raised)

\* the arguments of the call of lines 144-146
Call(cauldron_id, date, drain_volume, tolerance, threshold) ==
    [cauldron_id |-> cauldron_id, date |-> date, drain_volume |-> drain_volume,
     tolerance |-> tolerance, threshold |-> threshold]

\* HandleFields testing drain_volume for truthiness
HandleFields_Truthiness(data, cauldron_data) ==
    LET cauldron_id == Get(cauldron_data, "cauldron_id", Null)
        date == Get(cauldron_data, "date_time", Null)
        drain_volume == Get(cauldron_data, "drain_volume", Null)
        tolerance == Get(data, "tolerance", Num(DefaultTolerance))
        threshold == Get(data, "threshold", Num(DefaultThreshold))
    IN  IF ~(Truthy(cauldron_id) /\ Truthy(date) /\ Truthy(drain_volume))
        THEN BadRequest("Missing required cauldron fields")
        ELSE IF ~(CanFloat(tolerance) /\ CanFloat(threshold) /\ CanFloat(drain_volume))
        THEN ServerError
        ELSE [call |-> Call(cauldron_id, date, Float(drain_volume),
                            Float(tolerance), Float(threshold))]

\* lines 133-146, cauldron_data being a non-empty mapping
HandleFields(data, cauldron_data) ==
    LET cauldron_id == Get(cauldron_data, "cauldron_id", Null)
        date == Get(cauldron_data, "date_time", Null)
        drain_volume == Get(cauldron_data, "drain_volume", Null)
        tolerance == Get(data, "tolerance", Num(DefaultTolerance))
        threshold == Get(data, "threshold", Num(DefaultThreshold))
    IN  IF ~(Truthy(cauldron_id) /\ Truthy(date) /\ drain_volume.t # "null")
        THEN BadRequest("Missing required cauldron fields")
        ELSE IF ~(CanFloat(tolerance) /\ CanFloat(threshold) /\ CanFloat(drain_volume))
        THEN ServerError
        ELSE [call |-> Call(cauldron_id, date, Float(drain_volume),
                            Float(tolerance), Float(threshold))]

\* lines 125-146: the response given before the evaluator is called, or
\* the call made.  data is what request.get_json(silent=True) returned
\* (Null for a body that is missing or is not JSON); .get on a value that
\* is no mapping raises AttributeError
HandleRequest(data) ==
    IF data.t = "null" THEN BadRequest("Invalid or missing JSON body")
    ELSE IF data.t # "map" THEN ServerError
    ELSE LET cauldron_data == Get(data.v, "cauldron_data", Map(<<>>))
         IN  IF ~Truthy(cauldron_data)
             THEN BadRequest("Missing 'cauldron_data' field")
             ELSE IF cauldron_data.t # "map" THEN ServerError
             ELSE HandleFields(data.v, cauldron_data.v)

Calls(handled) == DOMAIN handled = {"call"}

\* Reply answering an evaluator error with a client-error status
Reply_ErrorStatus(result) ==
    IF IsRaised(result) THEN ServerError
    ELSE IF IsError(result) THEN HttpResponse(400, result)
    ELSE HttpResponse(200, result)

\* line 148, and Flask's answer when check_discrepancy raised
Reply(result) ==
    IF IsRaised(result) THEN ServerError ELSE HttpResponse(200, result)

----------------------------------------------------------------------------
(* The inputs drawn. *)

Absent == [t |-> "absent"]

\* the mapping holding the members whose value is not Absent
MakeMap(members) ==
    LET present == {i \in DOMAIN members : members[i].val.t # "absent"}
    IN  [k \in {members[i].key : i \in present} |-> Lookup(members, k)]

Day1 == Str("2025-11-01")
Day1Noon == Str("2025-11-01T10:30:00")
Day2 == Str("2025-11-02")
NotADate == Str("not-a-date")
Amount(n) == Num(Rat(n, 1))

Ticket(cauldron_id, date, amount_collected) ==
    MakeMap(<<Member("cauldron_id", cauldron_id), Member("date", date),
              Member("amount_collected", amount_collected)>>)

TicketRecords ==
    {Ticket(Str("c1"), Day1Noon, Amount(1)),
     Ticket(Str("c1"), Day1, Amount(3)),
     Ticket(Str("c2"), Day1, Amount(3)),
     Ticket(Str("c1"), Day2, Amount(3)),
     Ticket(Str("c1"), Day1, Absent),
     Ticket(Absent, Day1, Amount(3)),
     Ticket(Str("c1"), Absent, Amount(3)),
     Ticket(Str("c1"), NotADate, Amount(1))}

TicketLists == UNION {[1..n -> TicketRecords] : n \in 0..MaxTickets}

OtherList == List(<<Ticket(Str("c2"), Day1, Amount(3))>>)

\* the bodies wrapping the list L
Wrapped(L) ==
    {List(L),
     Obj(<<Member("tickets", List(L))>>),
     Obj(<<Member("data", List(L))>>),
     Obj(<<Member("count", Amount(Len(L))), Member("items", List(L)),
           Member("more", OtherList)>>),
     Obj(<<Member("data", OtherList), Member("tickets", List(L))>>)}

UpstreamBodies ==
    UNION {Wrapped(L) : L \in TicketLists}
    \cup {Str("maintenance"), Null,
          Obj(<<Member("count", Amount(0))>>),
          Obj(<<Member("tickets", Str("none"))>>),
          Obj(<<Member("tickets", Obj(<<Member("cauldron_id", Str("c1")),
                                        Member("date", Day1),
                                        Member("amount_collected", Amount(3))>>))>>)}

Ok(json) == [kind |-> "ok", json |-> json]
Failure(kind) == [kind |-> kind]

UpstreamResponses ==
    {Failure("transport_error"), Failure("http_error"), Failure("not_json")}
    \cup {Ok(b) : b \in UpstreamBodies}

CauldronDatas ==
    {Absent, Map(<<>>), Str("c1"), Map("note" :> Str("n"))}
    \cup {Map(MakeMap(<<Member("cauldron_id", i), Member("date_time", d),
                        Member("drain_volume", v)>>)) :
            i \in {Absent, Str(""), Str("c1")},
            d \in {Absent, Day1Noon, NotADate},
            v \in {Absent, Null, Amount(0), Amount(-3), Amount(4), Str("4"),
                   Str("abc")}}

\* tolerance and threshold as sent
Policies ==
    {<<Absent, Absent>>, <<Amount(0), Amount(0)>>, <<Num(Rat(1, 2)), Amount(0)>>,
     <<Amount(0), Amount(2)>>, <<Str("abc"), Absent>>, <<Absent, Null>>}

RequestBodies ==
    {Null, Str("text")}
    \cup {Map(MakeMap(<<Member("cauldron_data", c), Member("tolerance", p[1]),
                        Member("threshold", p[2])>>)) :
            c \in CauldronDatas, p \in Policies}

\* the smaller sets the concurrent requests draw from
ConcurrentBodies ==
    {Null}
    \cup {Map(MakeMap(<<Member("cauldron_data",
                               Map(MakeMap(<<Member("cauldron_id", i),
                                             Member("date_time", Day1),
                                             Member("drain_volume", Amount(4))>>))),
                        Member("threshold", Amount(0))>>)) :
            i \in {Str("c1"), Str("c2")}}

ConcurrentResponses ==
    {Failure("transport_error"),
     Ok(List(<<Ticket(Str("c1"), Day1, Amount(3))>>)),
     Ok(Obj(<<Member("tickets", List(<<Ticket(Str("c2"), Day1Noon, Amount(1)),
                                       Ticket(Str("c1"), Day1, Amount(1))>>))>>))}

----------------------------------------------------------------------------
(* The service: each request in flight is at one place of the handler. *)

Requests == 1..NumRequests

None == [t |-> "none"]
NoResponse == [code |-> 0]

Init ==
    /\ pc = [r \in Requests |-> "idle"]
    /\ request = [r \in Requests |-> None]
    /\ args = [r \in Requests |-> None]
    /\ upstream = [r \in Requests |-> None]
    /\ fetches = [r \in Requests |-> 0]
    /\ response = [r \in Requests |-> NoResponse]

\* lines 125-146 and line 24: the body is validated and, if it passes,
\* check_discrepancy is entered and sends its GET
Receive(r, data) ==
    /\ pc[r] = "idle"
    /\ request' = [request EXCEPT ![r] = data]
    /\ LET handled == HandleRequest(data)
       IN  IF Calls(handled)
           THEN /\ args' = [args EXCEPT ![r] = handled.call]
                /\ fetches' = [fetches EXCEPT ![r] = @ + 1]
                /\ pc' = [pc EXCEPT ![r] = "fetching"]
                /\ UNCHANGED response
           ELSE /\ response' = [response EXCEPT ![r] = handled]
                /\ pc' = [pc EXCEPT ![r] = "done"]
                /\ UNCHANGED <<args, fetches>>
    /\ UNCHANGED upstream

\* the upstream answers the GET of request r, or the GET fails
Deliver(r, resp) ==
    /\ pc[r] = "fetching"
    /\ upstream' = [upstream EXCEPT ![r] = resp]
    /\ pc' = [pc EXCEPT ![r] = "fetched"]
    /\ UNCHANGED <<request, args, fetches, response>>

\* TicketsResponse served from the response another request fetched
TicketsResponse_Shared(r) ==
    LET others == {q \in Requests \ {r} : upstream[q] # None}
    IN  IF others = {} THEN upstream[r] ELSE upstream[CHOOSE q \in others : TRUE]

\* line 24: what requests.get returned to this invocation
TicketsResponse(r) == upstream[r]

\* lines 25-103 and 148
Evaluate(r) ==
    /\ pc[r] = "fetched"
    /\ LET a == args[r]
       IN  response' = [response EXCEPT ![r] =
               Reply(CheckDiscrepancy(a.cauldron_id, a.date, a.drain_volume,
                                      a.tolerance, a.threshold,
                                      TicketsResponse(r)))]
    /\ pc' = [pc EXCEPT ![r] = "done"]
    /\ UNCHANGED <<request, args, upstream, fetches>>

\* the exchange is over; nothing of it is kept, and the next request is
\* served from the same place
Finish(r) ==
    /\ pc[r] = "done"
    /\ pc' = [pc EXCEPT ![r] = "idle"]
    /\ request' = [request EXCEPT ![r] = None]
    /\ args' = [args EXCEPT ![r] = None]
    /\ upstream' = [upstream EXCEPT ![r] = None]
    /\ fetches' = [fetches EXCEPT ![r] = 0]
    /\ response' = [response EXCEPT ![r] = NoResponse]

\* one request at a time, over every input
Next ==
    \/ \E data \in RequestBodies : Receive(1, data)
    \/ \E resp \in UpstreamResponses : Deliver(1, resp)
    \/ Evaluate(1)
    \/ Finish(1)

Spec == Init /\ [][Next]_vars

\* NumRequests requests in flight at once
NextConcurrent ==
    \E r \in Requests :
        \/ \E data \in ConcurrentBodies : Receive(r, data)
        \/ \E resp \in ConcurrentResponses : Deliver(r, resp)
        \/ Evaluate(r)
        \/ Finish(r)

SpecConcurrent == Init /\ [][NextConcurrent]_vars

----------------------------------------------------------------------------
(* What the claims speak of. *)

Done(r) == pc[r] = "done"

\* check_discrepancy was called for request r
Invoked(r) == fetches[r] > 0

Body(r) == response[r].body

\* a complete ReconciliationResult
IsResult(res) ==
    {"cauldron_id", "date", "drain_volume", "total_ticket_volume", "status",
     "difference", "relative_diff"} \subseteq DOMAIN res

Returned(r) == Done(r) /\ Invoked(r) /\ response[r].code = 200 /\ IsResult(Body(r))

\* the ticket records request r was answered with, for a body that is a
\* list or wraps one under `tickets`, under `data`, or as its first list
HasMember(json, k) == \E i \in DOMAIN json.v : json.v[i].key = k
MemberOf(json, k) == json.v[CHOOSE i \in DOMAIN json.v : json.v[i].key = k].val
ListMembers(json) == {i \in DOMAIN json.v : json.v[i].val.t = "list"}

CarriesList(json) ==
    \/ json.t = "list"
    \/ json.t = "obj" /\ HasMember(json, "tickets") /\ MemberOf(json, "tickets").t = "list"
    \/ json.t = "obj" /\ ~HasMember(json, "tickets") /\ HasMember(json, "data")
         /\ MemberOf(json, "data").t = "list"
    \/ json.t = "obj" /\ ~HasMember(json, "tickets") /\ ~HasMember(json, "data")
         /\ ListMembers(json) # {}

CarriedList(json) ==
    IF json.t = "list" THEN json.v
    ELSE IF HasMember(json, "tickets") THEN MemberOf(json, "tickets").v
    ELSE IF HasMember(json, "data") THEN MemberOf(json, "data").v
    ELSE json.v[CHOOSE i \in ListMembers(json) : \A j \in ListMembers(json) : i <= j].val.v

Fetched(r) == upstream[r] # None /\ upstream[r].kind = "ok" /\ CarriesList(upstream[r].json)

TicketsFor(r) == CarriedList(upstream[r].json)

\* ticket t is one of the requested cauldron and day
IsMatch(t, r) ==
    /\ "cauldron_id" \in DOMAIN t /\ t.cauldron_id = args[r].cauldron_id
    /\ "date" \in DOMAIN t /\ Parseable(t.date) /\ Parseable(args[r].date)
    /\ CalendarDate[t.date.v] = CalendarDate[args[r].date.v]

SomeMatch(r) == \E i \in DOMAIN TicketsFor(r) : IsMatch(TicketsFor(r)[i], r)

Complete(t) == {"cauldron_id", "date", "amount_collected"} \subseteq DOMAIN t

WellFormed(L) ==
    /\ Len(L) > 0
    /\ \A i \in DOMAIN L : Complete(L[i]) /\ Parseable(L[i].date)

----------------------------------------------------------------------------
(* The claims. *)

\* C1: when at least one ticket matches the requested cauldron and date, the
\* status is OK exactly when relative_diff <= tolerance or difference <=
\* threshold (either alone suffices); otherwise it is OVER_REPORTED when the
\* ticket total exceeds the drain volume and UNDER_REPORTED when it does not.
\* No other status is produced on this branch.
C1_Classification ==
    \A r \in Requests :
        (Returned(r) /\ Fetched(r) /\ SomeMatch(r)) =>
            LET res == Body(r)
                a == args[r]
                difference == RatAbs(RatSub(res.total_ticket_volume, a.drain_volume))
                relative == RatDiv(difference, RatMax(a.drain_volume, Epsilon))
                within == RatLe(relative, a.tolerance) \/ RatLe(difference, a.threshold)
            IN  /\ res.status \in {"OK", "OVER_REPORTED", "UNDER_REPORTED"}
                /\ (res.status = "OK") <=> within
                /\ ~within =>
                     ((res.status = "OVER_REPORTED")
                        <=> RatLt(a.drain_volume, res.total_ticket_volume))

\* a result that is OK by the threshold alone: the relative difference is
\* above the tolerance
C1_Witness ==
    \E r \in Requests :
        /\ Returned(r) /\ Fetched(r) /\ SomeMatch(r)
        /\ Body(r).status = "OK"
        /\ ~RatLe(Body(r).relative_diff, args[r].tolerance)
        /\ RatLe(Body(r).difference, args[r].threshold)

\* C2: for a valid request answered with a non-empty, well-formed ticket
\* collection holding no ticket of the requested cauldron and date, the
\* result has status MISSING_TICKET, total_ticket_volume 0.0, relative_diff
\* 1.0 and difference = drain_volume, whatever tolerance and threshold are.
C2_MissingTicket ==
    \A r \in Requests :
        (Done(r) /\ Invoked(r) /\ Fetched(r) /\ WellFormed(TicketsFor(r))
           /\ Parseable(args[r].date) /\ ~SomeMatch(r)) =>
            /\ response[r].code = 200
            /\ IsResult(Body(r))
            /\ Body(r).status = "MISSING_TICKET"
            /\ RatEq(Body(r).total_ticket_volume, Zero)
            /\ RatEq(Body(r).relative_diff, One)
            /\ RatEq(Body(r).difference, args[r].drain_volume)

\* a MISSING_TICKET result where the classification would have said OK:
\* the drain volume is within the threshold of zero
C2_Witness ==
    \E r \in Requests :
        /\ Done(r) /\ Invoked(r) /\ Fetched(r) /\ WellFormed(TicketsFor(r))
        /\ Parseable(args[r].date) /\ ~SomeMatch(r)
        /\ Body(r).status = "MISSING_TICKET"
        /\ RatLe(RatAbs(args[r].drain_volume), args[r].threshold)

\* C3: every result returned, on the MISSING_TICKET branch and on the
\* comparison branch, for every drain_volume, has
\* difference = |total_ticket_volume - drain_volume|.
C3_DifferenceIsAbsolute ==
    \A r \in Requests :
        Returned(r) =>
            RatEq(Body(r).difference,
                  RatAbs(RatSub(Body(r).total_ticket_volume, Body(r).drain_volume)))

\* C4: every result returned, on both branches and for every drain_volume,
\* has relative_diff = difference / max(drain_volume, 1e-6).
C4_RelativeDiff ==
    \A r \in Requests :
        Returned(r) =>
            RatEq(Body(r).relative_diff,
                  RatDiv(Body(r).difference, RatMax(Body(r).drain_volume, Epsilon)))

\* C5: a body {"tickets": L}, {"data": L}, a mapping whose first list-valued
\* member is L, and the bare list L give the same outcome (the same result
\* or the same error): each gives the outcome of the bare list; `tickets`
\* is looked for before `data`, and `data` before the first list.
C5_ShapesAgree ==
    \A r \in Requests :
        (Done(r) /\ Invoked(r) /\ Fetched(r)) =>
            LET a == args[r]
            IN  response[r] =
                    Reply(CheckDiscrepancy(a.cauldron_id, a.date, a.drain_volume,
                                           a.tolerance, a.threshold,
                                           Ok(List(TicketsFor(r)))))

\* a result computed from the `tickets` list of a body that also has a
\* `data` member, listed first, whose list would have given another result
C5_Witness ==
    \E r \in Requests :
        /\ Returned(r) /\ Fetched(r)
        /\ upstream[r].json.t = "obj"
        /\ HasMember(upstream[r].json, "tickets")
        /\ HasMember(upstream[r].json, "data")
        /\ upstream[r].json.v[1].key = "data"
        /\ LET a == args[r]
           IN  response[r] #
                   Reply(CheckDiscrepancy(a.cauldron_id, a.date, a.drain_volume,
                                          a.tolerance, a.threshold,
                                          Ok(MemberOf(upstream[r].json, "data"))))

\* the request body of r is a mapping whose cauldron_data is a non-empty
\* mapping
HasCauldronData(r) ==
    /\ request[r] # None
    /\ request[r].t = "map"
    /\ "cauldron_data" \in DOMAIN request[r].v
    /\ request[r].v.cauldron_data.t = "map"
    /\ DOMAIN request[r].v.cauldron_data.v # {}

CauldronData(r) == request[r].v.cauldron_data.v

\* field k of cauldron_data is absent, or empty
Lacks(r, k) == k \notin DOMAIN CauldronData(r) \/ CauldronData(r)[k] = Str("")

\* tolerance and threshold are left out or are numbers
PlainPolicy(r) ==
    \A k \in {"tolerance", "threshold"} :
        k \in DOMAIN request[r].v => request[r].v[k].t = "num"

\* C6: with cauldron_data non-empty, a request lacking cauldron_id, date_time
\* or drain_volume (or with cauldron_id or date_time empty) is answered 400
\* "Missing required cauldron fields" and the evaluator is not invoked;
\* drain_volume is tested for presence, so a request with drain_volume 0 and
\* the other two fields present is not rejected and reaches the evaluator
\* with drain_volume 0.
C6_RequiredFields ==
    \A r \in Requests :
        HasCauldronData(r) =>
            /\ (Lacks(r, "cauldron_id") \/ Lacks(r, "date_time")
                  \/ "drain_volume" \notin DOMAIN CauldronData(r)) =>
                 /\ Done(r)
                 /\ response[r] = HttpResponse(400, Error("Missing required cauldron fields", {}))
                 /\ ~Invoked(r)
            /\ (~Lacks(r, "cauldron_id") /\ ~Lacks(r, "date_time")
                  /\ "drain_volume" \in DOMAIN CauldronData(r)
                  /\ CauldronData(r).drain_volume = Amount(0)) =>
                 /\ response[r].code # 400
                 /\ PlainPolicy(r) => (Invoked(r) /\ RatEq(args[r].drain_volume, Zero))

\* a request with drain_volume 0 that reached the evaluator and got a result
C6_Witness ==
    \E r \in Requests :
        /\ HasCauldronData(r)
        /\ "drain_volume" \in DOMAIN CauldronData(r)
        /\ CauldronData(r).drain_volume = Amount(0)
        /\ Returned(r)
        /\ RatEq(Body(r).drain_volume, Zero)

\* the request of r passed the presence checks of the handler
PassedPresenceChecks(r) ==
    /\ HasCauldronData(r)
    /\ ~Lacks(r, "cauldron_id") /\ ~Lacks(r, "date_time")
    /\ "drain_volume" \in DOMAIN CauldronData(r)
    /\ CauldronData(r).drain_volume # Null

\* C7: every request that passes the presence checks, whatever its date_time,
\* tolerance, threshold and drain_volume and whatever the upstream does, ends
\* in a complete result or in an {"error": message} payload; no failure
\* escapes as an unhandled exception.
C7_NoUnhandledException ==
    \A r \in Requests :
        (Done(r) /\ PassedPresenceChecks(r)) =>
            /\ response[r].code # 500
            /\ IsResult(Body(r)) \/ IsError(Body(r))

\* C8: if any ticket record of the fetched collection lacks cauldron_id, date
\* or amount_collected, be it every record or only some, the evaluation fails
\* with the missing-columns error listing the fields present, and no result
\* is returned.
C8_IncompleteRecordsRejected ==
    \A r \in Requests :
        (Done(r) /\ Invoked(r) /\ Fetched(r)
           /\ \E i \in DOMAIN TicketsFor(r) : ~Complete(TicketsFor(r)[i])) =>
            /\ IsError(Body(r))
            /\ Body(r).error.msg = "Missing expected columns in ticket data"

\* what the handler and the evaluator make of the request of r and of the
\* response to its own GET
OwnOutcome(r) ==
    LET handled == HandleRequest(request[r])
    IN  IF Calls(handled)
        THEN Reply(CheckDiscrepancy(handled.call.cauldron_id, handled.call.date,
                                    handled.call.drain_volume, handled.call.tolerance,
                                    handled.call.threshold, upstream[r]))
        ELSE handled

\* C9: over any interleaving of requests, each evaluator invocation performs
\* exactly one fetch (none is repeated, none is shared), and the outcome of a
\* request depends only on its own inputs and the response to its own fetch.
C9_OneFetchOwnOutcome ==
    \A r \in Requests :
        /\ fetches[r] <= 1
        /\ pc[r] \in {"fetching", "fetched"} => fetches[r] = 1
        /\ Done(r) =>
             /\ Invoked(r) <=> Calls(HandleRequest(request[r]))
             /\ Invoked(r) <=> upstream[r] # None
             /\ response[r] = OwnOutcome(r)

\* two requests with the same body, served at the same time, each fetched
\* once, that got different responses from the upstream and so different
\* outcomes
C9_Witness ==
    \E r, q \in Requests :
        /\ r # q /\ Done(r) /\ Done(q)
        /\ request[r] = request[q]
        /\ fetches[r] = 1 /\ fetches[q] = 1
        /\ upstream[r] # upstream[q]
        /\ response[r] # response[q]

\* what check_discrepancy returned to the handler of r
EvaluatorResult(r) ==
    CheckDiscrepancy(args[r].cauldron_id, args[r].date, args[r].drain_volume,
                     args[r].tolerance, args[r].threshold, upstream[r])

\* C10: whatever the evaluator returns is sent with status 200; an evaluator
\* error is sent as status 200 with a body holding the `error` key alone;
\* status 400 is given only for request-validation errors, the evaluator not
\* having been invoked.
C10_EvaluatorErrorsAre200 ==
    \A r \in Requests :
        Done(r) =>
            /\ (Invoked(r) /\ ~IsRaised(EvaluatorResult(r))) =>
                 /\ response[r].code = 200
                 /\ Body(r) = EvaluatorResult(r)
                 /\ IsError(EvaluatorResult(r)) => DOMAIN Body(r) = {"error"}
            /\ response[r].code = 400 =>
                 /\ ~Invoked(r)
                 /\ Body(r).error.msg \in {"Invalid or missing JSON body",
                                           "Missing 'cauldron_data' field",
                                           "Missing required cauldron fields"}

\* an evaluator error (the columns missing) delivered with status 200
C10_Witness ==
    \E r \in Requests :
        /\ Done(r) /\ Invoked(r)
        /\ response[r].code = 200
        /\ IsError(Body(r))
        /\ Body(r).error.msg = "Missing expected columns in ticket data"

====
